---- MODULE Spec2Model ----
(***************************************************************************)
(* Session manager of haiyiyun/session: the manager (manager.go), the      *)
(* session entity (session_data.go) and the cache adapter                  *)
(* (cache_adapter.go) over an external byte cache with per-key TTL.        *)
(*                                                                         *)
(* Time is an integer number of seconds.  Strings are sequences of         *)
(* one-character strings.  A handler is one atomic action; the cache       *)
(* calls it makes are part of the action.                                  *)
(***************************************************************************)
EXTENDS Integers, Sequences, FiniteSets, TLC

VARIABLES
    now,         \* wall clock, time.Now()
    cache,       \* the external cache: key -> [bytes, exp]
    minted,      \* number of UUIDs handed out by uuid.New()
    cfg,         \* the manager's configuration, fixed at NewManager
    signingKey,  \* sessionManager.signingKey
    ent,         \* the *SessionData the caller holds (returned by Create)
    resp,        \* the cookie SetToResponse wrote last
    last,        \* the most recent call and what it returned
    sigIn,       \* input of verifySignature (specification SpecSig)
    sigOut,      \* its result
    calls,       \* the RegenerateSessionID calls in progress (specification SpecConc)
    mutex,       \* sessionManager.sessionLock of each manager process
    tokIn,       \* inputs of the security-token functions (specification SpecTok)
    tokOut       \* their result

vars == <<now, cache, minted, cfg, signingKey, ent, resp, last, sigIn, sigOut,
          calls, mutex, tokIn, tokOut>>

----------------------------------------------------------------------------
(* Bounds of the model *)

MaxTime == 3
MaxIDs == 2
MaxDuration == 3
MaxLen == 4
MaxKey == 1
MaxCalls == 3
MaxProcs == 2
MaxWorkers == 3
MaxRace == 2
RandLen == 1        \* bytes of randomness in a security token (32 in the code)
TsLen == 6          \* bytes of its timestamp (4 in the code; a byte here has 2 bits)
SigLen == 1         \* bytes of its signature (4 in the code)
HashLen == 2        \* bytes of an HMAC-SHA256 sum (32 in the code)
TokenNow == 3700    \* the clock at which tokens are validated

(* Program constants (seconds) *)

TombstoneTTL == 5
LockTTL == 5
WorkerDuration == 300
MaxDrift == 30
TokenHour == 3600
RefreshCooldown == 300

----------------------------------------------------------------------------
(* Strings and IDs *)

\* uuid.New().String(): the n-th identifier minted; two toy hex digits.
HexDigits == <<"a", "-">>

\* a generator that hands out one identifier again and again
uuidNew_Repeating(n) == <<"a", "a">>

uuidNew(n) ==
    <<HexDigits[(((n - 1) \div 2) % 2) + 1], HexDigits[((n - 1) % 2) + 1]>> \o
        [i \in 1..((n - 1) \div 4) |-> "a"]

MintedIDs == {uuidNew(n) : n \in 1..minted}

\* an identifier no Create ever returned ("invalid-id" of the tests)
InvalidID == <<"!">>

\* Get, Refresh and RegenerateSessionID are called with the IDs handed out so
\* far: an ID whose record was destroyed or ran out stands for an absent key.
CallIDs == MintedIDs

LockKey(id) == <<"hyy_session_lock:">> \o id

DataKeys == {"k"}
DataVals == {"v"}

----------------------------------------------------------------------------
(* Errors *)

ErrNil == "nil"
ErrNotFound == "session not found"
ErrInactive == "session expired due to inactivity"
ErrSignature == "invalid session signature"
ErrNoCookie == "http: named cookie not present"
ErrLock == "acquire lock failed: lock already exists"
ErrDecode == "gob: decode error"
ErrPathMismatch == "cookie path mismatch"
ErrEncode == "gob: cannot encode nil pointer"
ErrType == "invalid session data type"
ErrTTL == "cache: invalid expiration"
ErrCache == "cache: set failed"

----------------------------------------------------------------------------
(* Session entity, session_data.go *)

\* the zero SessionData (var data SessionData), also standing for a nil Session
NilSession ==
    [SessionID |-> <<>>, SecurityToken |-> "", Data |-> <<>>,
     Expiration |-> 0, LastActive |-> 0]

\* generateSecurityToken: the manager never reads the token it stores, so the
\* record keeps an opaque value.
generateSecurityToken(t) == "token"

NewSessionData(id, securityToken, duration, t) ==
    [SessionID |-> id, SecurityToken |-> securityToken, Data |-> <<>>,
     Expiration |-> t + duration, LastActive |-> t]

\* Touch writing the expiry as well as the activity time
Touch_BothTimes(s, t) == [s EXCEPT !.LastActive = t, !.Expiration = t]

Touch(s, t) == [s EXCEPT !.LastActive = t]

Renew(s, duration, t) == [s EXCEPT !.Expiration = t + duration]

ExpireAt(s) == s.Expiration

MapSet(m, k, v) == [x \in DOMAIN m \cup {k} |-> IF x = k THEN v ELSE m[x]]

SessionDataSet(s, k, v, t) == [Touch(s, t) EXCEPT !.Data = MapSet(s.Data, k, v)]

\* a <<value, found>> pair
MapGet(m, k) == IF k \in DOMAIN m THEN <<m[k], TRUE>> ELSE <<"nil", FALSE>>

\* SessionData.Get: the entity after the call and the <<value, found>> pair
SessionDataGet(s, k, t) == [s |-> Touch(s, t), val |-> MapGet(s.Data, k)]

MapDelete(m, k) == [x \in DOMAIN m \ {k} |-> m[x]]

\* SessionData.Delete: delete(s.Data, key) and nothing else
SessionDataDelete(s, k, t) == [s EXCEPT !.Data = MapDelete(s.Data, k)]

----------------------------------------------------------------------------
(* The external cache (github.com/haiyiyun/cache), as the adapter uses it *)

CachePut(c, k, e) == [x \in DOMAIN c \cup {k} |-> IF x = k THEN e ELSE c[x]]

CacheSet(c, k, bytes, ttl, t) == CachePut(c, k, [bytes |-> bytes, exp |-> t + ttl])

CacheDelete(c, k) == [x \in DOMAIN c \ {k} |-> c[x]]

CacheGet(c, k) ==
    IF k \in DOMAIN c THEN [found |-> TRUE, bytes |-> c[k].bytes]
    ELSE [found |-> FALSE, bytes |-> <<>>]

\* entries whose TTL has run out at time t are gone
CacheExpire(c, t) == [x \in {k \in DOMAIN c : c[k].exp > t} |-> c[x]]

----------------------------------------------------------------------------
(* gob encoding of a *SessionData *)

gobEncode(s) == <<"gob", s>>

gobDecodable(bytes) == Len(bytes) = 2 /\ bytes[1] = "gob"

gobDecode(bytes) == bytes[2]

----------------------------------------------------------------------------
(* Cache adapter, cache_adapter.go *)

\* Get that reports bytes the decoder refuses as an absent key
CacheAdapterGet_DecodeErrorDropped(c, sessionID) ==
    LET r == CacheGet(c, sessionID) IN
    IF ~r.found \/ Len(r.bytes) = 0 \/ ~gobDecodable(r.bytes)
    THEN [found |-> FALSE, err |-> ErrNil, data |-> NilSession]
    ELSE [found |-> TRUE, err |-> ErrNil, data |-> gobDecode(r.bytes)]

\* Get without the zero-length test: the tombstone goes to the decoder
CacheAdapterGet_NoEmptyCheck(c, sessionID) ==
    LET r == CacheGet(c, sessionID) IN
    IF ~r.found THEN [found |-> FALSE, err |-> ErrNil, data |-> NilSession]
    ELSE IF gobDecodable(r.bytes)
         THEN [found |-> TRUE, err |-> ErrNil, data |-> gobDecode(r.bytes)]
         ELSE [found |-> TRUE, err |-> ErrDecode, data |-> NilSession]

CacheAdapterGet(c, sessionID) ==
    LET r == CacheGet(c, sessionID) IN
    IF ~r.found THEN [found |-> FALSE, err |-> ErrNil, data |-> NilSession]
    ELSE IF Len(r.bytes) = 0 THEN [found |-> FALSE, err |-> ErrNil, data |-> NilSession]
    ELSE IF gobDecodable(r.bytes)
         THEN [found |-> TRUE, err |-> ErrNil, data |-> gobDecode(r.bytes)]
         ELSE [found |-> TRUE, err |-> ErrDecode, data |-> NilSession]

\* Set with a *SessionData
CacheAdapterSet(c, sessionID, data, duration, t) ==
    CacheSet(c, sessionID, gobEncode(data), duration, t)

\* Set with data == nil: the zero-length tombstone
CacheAdapterSetNil(c, sessionID, duration, t) ==
    CacheSet(c, sessionID, <<>>, duration, t)

\* the values a caller can hand to CacheAdapter.Set as data interface{}
NilData == [type |-> "nil", val |-> NilSession]

SessionValue(s) == [type |-> "*SessionData", val |-> s]

OtherValues ==
    {[type |-> "string", val |-> NilSession]} \cup
    {[type |-> "SessionData", val |-> s] : s \in {ent}}

\* Set without the type assertion: whatever it is given is encoded and stored
CacheAdapterSetAny_NoTypeCheck(c, sessionID, data, duration, t) ==
    IF data.type = "nil"
    THEN [cache |-> CacheAdapterSetNil(c, sessionID, duration, t), err |-> ErrNil]
    ELSE [cache |-> CacheSet(c, sessionID, <<"gob", data.val>>, duration, t),
          err |-> ErrNil]

\* CacheAdapter.Set for any data: the type assertion, the nil case, the
\* encoder (which refuses a nil *SessionData), the write
CacheAdapterSetAny(c, sessionID, data, duration, t) ==
    IF data.type # "*SessionData" /\ data.type # "nil"
    THEN [cache |-> c, err |-> ErrType]
    ELSE IF data.type = "nil"
    THEN [cache |-> CacheAdapterSetNil(c, sessionID, duration, t), err |-> ErrNil]
    ELSE IF data.val = NilSession
    THEN [cache |-> c, err |-> ErrEncode]
    ELSE [cache |-> CacheAdapterSet(c, sessionID, data.val, duration, t), err |-> ErrNil]

\* Delete that never reaches the cache
CacheAdapterDelete_Noop(c, sessionID) == c

\* Delete drops the cache's error and returns nil: the result is the cache
CacheAdapterDelete(c, sessionID) == CacheDelete(c, sessionID)

\* the keys that hold a decodable session record
HasRecord(c, k) == k \in DOMAIN c /\ gobDecodable(c[k].bytes)

RecordAt(c, k) == gobDecode(c[k].bytes)

----------------------------------------------------------------------------
(* Session manager, manager.go *)

min(a, b) == IF a < b THEN a ELSE b

\* the timeout compared with >= instead of >
checkInactivity_AtLimit(s, t) ==
    IF cfg.InactivityTimeout > 0
    THEN (t - s.LastActive) >= cfg.InactivityTimeout
    ELSE FALSE

checkInactivity(s, t) ==
    IF cfg.InactivityTimeout > 0
    THEN (t - s.LastActive) > cfg.InactivityTimeout
    ELSE FALSE

\* Destroy: the cache after the call and the error returned
DestroyCall(c, sessionID) ==
    [cache |-> CacheAdapterDelete(c, sessionID), err |-> ErrNil]

\* Get: the cache after the call, the error, the record as decoded and the
\* entity returned
GetCall(c, sessionID, t) ==
    LET r == CacheAdapterGet(c, sessionID) IN
    IF r.err # ErrNil
    THEN [cache |-> c, err |-> r.err, loaded |-> NilSession, res |-> NilSession]
    ELSE IF ~r.found
    THEN [cache |-> CacheAdapterSetNil(c, sessionID, TombstoneTTL, t),
          err |-> ErrNotFound, loaded |-> NilSession, res |-> NilSession]
    ELSE IF checkInactivity(r.data, t)
    THEN LET x == DestroyCall(c, sessionID) IN
         IF x.err # ErrNil
         THEN [cache |-> x.cache, err |-> x.err, loaded |-> r.data, res |-> NilSession]
         ELSE [cache |-> x.cache, err |-> ErrInactive, loaded |-> r.data,
               res |-> NilSession]
    ELSE LET data == Touch(r.data, t) IN
         [cache |-> CacheAdapterSet(c, sessionID, data, data.Expiration - t, t),
          err |-> ErrNil, loaded |-> r.data, res |-> data]


\* Refresh that returns after its Get, the renewed record never written
RefreshCall_NotPersisted(c, sessionID, duration, t) == GetCall(c, sessionID, t)

\* Refresh: Get, Renew with the duration asked for, then Set with the
\* duration clamped to MaxSessionDuration
RefreshCall(c, sessionID, duration, t) ==
    LET g == GetCall(c, sessionID, t) IN
    IF g.err # ErrNil
    THEN g
    ELSE LET sd == Renew(g.res, duration, t)
             ttl == IF cfg.MaxSessionDuration > 0
                    THEN min(duration, cfg.MaxSessionDuration)
                    ELSE duration
         IN [cache |-> CacheAdapterSet(g.cache, sessionID, sd, ttl, t),
             err |-> ErrNil, loaded |-> g.loaded, res |-> sd]

\* cache.Add: create-if-absent
CacheAdapterAdd(c, key, value, duration, t) ==
    IF key \in DOMAIN c
    THEN [cache |-> c, err |-> "key already exists"]
    ELSE [cache |-> CacheSet(c, key, <<"str", value>>, duration, t), err |-> ErrNil]

\* the copy loop left out: the new session starts with an empty map
CopyData_Skipped(newData, oldData) == newData

\* the loop of RegenerateSessionID that copies the old Data into the new map
CopyData(newData, oldData) ==
    [k \in DOMAIN newData \cup DOMAIN oldData |->
        IF k \in DOMAIN oldData THEN oldData[k] ELSE newData[k]]

\* a body that deletes the old record before it persists the new one
RegenerateBodySet_DeleteFirst(c, oldSessionID, newSessionID, t, setErr) ==
    LET g == GetCall(c, oldSessionID, t) IN
    IF g.err # ErrNil
    THEN [cache |-> g.cache, err |-> g.err, loaded |-> g.loaded,
          res |-> NilSession, new |-> <<>>]
    ELSE LET fresh == NewSessionData(newSessionID, generateSecurityToken(t),
                                     ExpireAt(g.res) - t, t)
             newSessionData == [fresh EXCEPT !.Data = CopyData(fresh.Data, g.res.Data)]
             c1 == CacheAdapterDelete(g.cache, oldSessionID)
             c2 == CacheAdapterSet(c1, newSessionID, newSessionData,
                                   newSessionData.Expiration - t, t)
         IN IF setErr # ErrNil
            THEN [cache |-> c1, err |-> setErr, loaded |-> g.res,
                  res |-> NilSession, new |-> <<>>]
            ELSE [cache |-> c2, err |-> ErrNil, loaded |-> g.res,
                  res |-> newSessionData, new |-> newSessionID]

\* RegenerateSessionID between the Add of the lock and its deferred Delete;
\* setErr is what the cache answers to the Set of the new record: on an error
\* nothing is stored and the call returns it before the Delete of the old one
RegenerateBodySet(c, oldSessionID, newSessionID, t, setErr) ==
    LET g == GetCall(c, oldSessionID, t) IN
    IF g.err # ErrNil
    THEN [cache |-> g.cache, err |-> g.err, loaded |-> g.loaded,
          res |-> NilSession, new |-> <<>>]
    ELSE LET fresh == NewSessionData(newSessionID, generateSecurityToken(t),
                                     ExpireAt(g.res) - t, t)
             newSessionData == [fresh EXCEPT !.Data = CopyData(fresh.Data, g.res.Data)]
             c1 == CacheAdapterSet(g.cache, newSessionID, newSessionData,
                                   newSessionData.Expiration - t, t)
             \* CacheAdapter.Delete returns nil: the retry loop is never entered
             c2 == CacheAdapterDelete(c1, oldSessionID)
         IN IF setErr # ErrNil
            THEN [cache |-> g.cache, err |-> setErr, loaded |-> g.res,
                  res |-> NilSession, new |-> <<>>]
            ELSE [cache |-> c2, err |-> ErrNil, loaded |-> g.res,
                  res |-> newSessionData, new |-> newSessionID]

\* the body when the cache accepts the Set of the new record
RegenerateBody(c, oldSessionID, newSessionID, t) ==
    RegenerateBodySet(c, oldSessionID, newSessionID, t, ErrNil)

\* the lock deleted only before a successful return
RegenerateCall_ReleaseOnSuccess(c, oldSessionID, newSessionID, t) ==
    LET lockKey == LockKey(oldSessionID)
        a == CacheAdapterAdd(c, lockKey, "hyy_locked", LockTTL, t)
    IN IF a.err # ErrNil
       THEN [cache |-> c, err |-> ErrLock, loaded |-> NilSession,
             res |-> NilSession, new |-> <<>>]
       ELSE LET b == RegenerateBody(a.cache, oldSessionID, newSessionID, t) IN
            IF b.err # ErrNil THEN b
            ELSE [b EXCEPT !.cache = CacheAdapterDelete(b.cache, lockKey)]

\* RegenerateSessionID as one step: the Add of the lock, the body, the
\* deferred Delete of the lock
RegenerateCall(c, oldSessionID, newSessionID, t) ==
    LET lockKey == LockKey(oldSessionID)
        a == CacheAdapterAdd(c, lockKey, "hyy_locked", LockTTL, t)
    IN IF a.err # ErrNil
       THEN [cache |-> c, err |-> ErrLock, loaded |-> NilSession,
             res |-> NilSession, new |-> <<>>]
       ELSE LET b == RegenerateBody(a.cache, oldSessionID, newSessionID, t) IN
            [b EXCEPT !.cache = CacheAdapterDelete(b.cache, lockKey)]

\* RegenerateSessionID as one step, with the answer of the cache to the Set of
\* the new record
RegenerateCallSet(c, oldSessionID, newSessionID, t, setErr) ==
    LET lockKey == LockKey(oldSessionID)
        a == CacheAdapterAdd(c, lockKey, "hyy_locked", LockTTL, t)
    IN IF a.err # ErrNil
       THEN [cache |-> c, err |-> ErrLock, loaded |-> NilSession,
             res |-> NilSession, new |-> <<>>]
       ELSE LET b == RegenerateBodySet(a.cache, oldSessionID, newSessionID, t, setErr) IN
            [b EXCEPT !.cache = CacheAdapterDelete(b.cache, lockKey)]

\* what the cache answers to a Set: success, or a failure of its own
SetAnswers == {ErrNil, ErrCache}

----------------------------------------------------------------------------
(* Cookie signing, manager.go.  A byte has two bits; the base64url          *)
(* alphabet has two characters, one bit each.                              *)

Chars == {"a", "-", ".", "!"}

CharCode(ch) == CASE ch = "a" -> 1 [] ch = "-" -> 2 [] ch = "." -> 3 [] OTHER -> 4

RECURSIVE Digest(_, _)
Digest(msg, i) ==
    IF i > Len(msg) THEN 0 ELSE i * CharCode(msg[i]) + Digest(msg, i + 1)

\* hmac.New(sha256.New, key); Write(msg); Sum(nil): one byte here
hmacSum(key, msg) == <<(key + Digest(msg, 1)) % 4>>

\* the alphabet of base64.StdEncoding, which the decoder of URLEncoding rejects
URLAlphabet_Std == <<"a", "+">>

\* the alphabet of base64.URLEncoding
URLAlphabet == <<"a", "-">>

URLIndex(ch) == IF ch = "a" THEN 0 ELSE 1

RECURSIVE EncodeToString(_)
EncodeToString(bytes) ==
    IF bytes = <<>> THEN <<>>
    ELSE <<URLAlphabet[(Head(bytes) \div 2) + 1], URLAlphabet[(Head(bytes) % 2) + 1]>>
             \o EncodeToString(Tail(bytes))

RECURSIVE DecodeBytes(_)
DecodeBytes(str) ==
    IF Len(str) < 2 THEN <<>>
    ELSE <<2 * URLIndex(str[1]) + URLIndex(str[2])>> \o DecodeBytes(Tail(Tail(str)))

\* base64.URLEncoding.DecodeString
DecodeString(str) ==
    IF Len(str) % 2 = 0 /\ \A i \in 1..Len(str) : str[i] \in {"a", "-"}
    THEN [err |-> ErrNil, bytes |-> DecodeBytes(str)]
    ELSE [err |-> "illegal base64 data", bytes |-> <<>>]

\* a split at the last "." instead of the first
SplitN2_LastDot(str) ==
    LET dots == {i \in 1..Len(str) : str[i] = "."} IN
    IF dots = {} THEN <<str>>
    ELSE LET p == CHOOSE i \in dots : \A j \in dots : i >= j IN
         <<SubSeq(str, 1, p - 1), SubSeq(str, p + 1, Len(str))>>

\* strings.SplitN(s, ".", 2)
SplitN2(str) ==
    LET dots == {i \in 1..Len(str) : str[i] = "."} IN
    IF dots = {} THEN <<str>>
    ELSE LET p == CHOOSE i \in dots : \A j \in dots : i <= j IN
         <<SubSeq(str, 1, p - 1), SubSeq(str, p + 1, Len(str))>>

signSessionID(key, sessionID) ==
    sessionID \o <<".">> \o EncodeToString(hmacSum(key, sessionID))

verifySignature(key, signedValue) ==
    LET parts == SplitN2(signedValue) IN
    IF Len(parts) # 2 THEN <<<<>>, FALSE>>
    ELSE LET sessionID == parts[1]
             dec == DecodeString(parts[2])
         IN IF dec.err # ErrNil THEN <<<<>>, FALSE>>
            ELSE <<sessionID, dec.bytes = hmacSum(key, sessionID)>>

\* the cookie SetToResponse writes
ResponseCookie(s) ==
    [Name |-> "hyy_session_id",
     Value |-> signSessionID(signingKey, s.SessionID),
     Path |-> "/", HttpOnly |-> TRUE, Secure |-> cfg.secureCookie, SameSite |-> "Lax",
     Expires |-> IF ~cfg.sessionCookie THEN ExpireAt(s) ELSE 0]

\* GetFromRequest that loads the session named in the cookie before it looks
\* at the signature
GetFromRequestCall_GetFirst(c, r, t) ==
    LET v == verifySignature(signingKey, r.value)
        g == GetCall(c, SplitN2(r.value)[1], t)
    IN IF ~r.present
       THEN [cache |-> c, err |-> ErrNoCookie, loaded |-> NilSession,
             res |-> NilSession, id |-> <<>>]
       ELSE IF ~v[2]
       THEN [cache |-> g.cache, err |-> ErrSignature, loaded |-> NilSession,
             res |-> NilSession, id |-> <<>>]
       ELSE [cache |-> g.cache, err |-> g.err, loaded |-> g.loaded,
             res |-> g.res, id |-> v[1]]

\* GetFromRequest on a request r: r.present says whether it carries the named
\* cookie, r.value is the cookie's value, r.path is the path of the request's
\* URL, which the handler does not read
GetFromRequestCall(c, r, t) ==
    IF ~r.present
    THEN [cache |-> c, err |-> ErrNoCookie, loaded |-> NilSession,
          res |-> NilSession, id |-> <<>>]
    ELSE
    LET v == verifySignature(signingKey, r.value) IN
    IF ~v[2]
    THEN [cache |-> c, err |-> ErrSignature, loaded |-> NilSession,
          res |-> NilSession, id |-> <<>>]
    ELSE LET g == GetCall(c, v[1], t) IN
         [cache |-> g.cache, err |-> g.err, loaded |-> g.loaded,
          res |-> g.res, id |-> v[1]]

----------------------------------------------------------------------------
(* The record of a call *)

\* what the caller saw of the most recent call: the operation, the session ID
\* and the duration it was given (0 when it takes none), the error it returned
CallD(op, id, d, err) == [op |-> op, id |-> id, d |-> d, err |-> err]

Call(op, id, err) == CallD(op, id, 0, err)

NoCall == Call("none", <<>>, ErrNil)

NoCookie ==
    [Name |-> "", Value |-> <<>>, Path |-> "", HttpOnly |-> FALSE, Secure |-> FALSE,
     SameSite |-> "", Expires |-> 0]

\* URL paths: "/", "/subpath" and the request paths of the cookie-path tests,
\* one character for each name
RootPath == <<"/">>

SubPath == <<"/", "s">>

RequestPaths ==
    {SubPath, <<"/", "s", "/">>, <<"/", "s", "/", "x">>, <<"/", "o">>, <<"/", "s", "x">>}

\* ComplianceConfig given to NewManager, with the default cookie options
Configs ==
    [MaxSessionDuration : {0, MaxDuration - 1}, InactivityTimeout : {0, 1},
     sessionCookie : {FALSE}, secureCookie : {TRUE}, cookiePath : {RootPath}]

\* the cookie options given to NewManager
CookieConfigs ==
    [MaxSessionDuration : {0}, InactivityTimeout : {0},
     sessionCookie : BOOLEAN, secureCookie : {TRUE},
     cookiePath : {RootPath, SubPath}]

Durations == 1..MaxDuration

SigningKeys == 0..MaxKey

Init ==
    /\ now = 0
    /\ cache = <<>>
    /\ minted = 0
    /\ cfg \in Configs
    /\ signingKey = 1
    /\ ent = NilSession
    /\ resp = NoCookie
    /\ last = NoCall
    /\ sigIn = <<>>
    /\ sigOut = <<>>
    /\ calls = <<>>
    /\ mutex = <<>>
    /\ tokIn = <<>>
    /\ tokOut = <<>>

\* a second passes; the cache drops the entries whose TTL ran out
Tick ==
    /\ now < MaxTime
    /\ now' = now + 1
    /\ cache' = CacheExpire(cache, now + 1)
    /\ UNCHANGED <<minted, cfg, signingKey, ent, resp, last, sigIn, sigOut, calls, mutex,
                   tokIn, tokOut>>

Create(duration) ==
    /\ minted < MaxIDs
    /\ LET sessionID == uuidNew(minted + 1)
           sessionData == NewSessionData(sessionID, generateSecurityToken(now),
                                         duration, now)
       IN /\ cache' = CacheAdapterSet(cache, sessionID, sessionData, duration, now)
          /\ ent' = sessionData
          /\ last' = CallD("Create", sessionID, duration, ErrNil)
    /\ minted' = minted + 1
    /\ UNCHANGED <<now, cfg, signingKey, resp, sigIn, sigOut, calls, mutex,
                   tokIn, tokOut>>

Get(sessionID) ==
    /\ LET g == GetCall(cache, sessionID, now) IN
          /\ cache' = g.cache
          /\ last' = Call("Get", sessionID, g.err)
    /\ UNCHANGED <<now, minted, cfg, signingKey, ent, resp, sigIn, sigOut, calls, mutex,
                   tokIn, tokOut>>

Destroy(sessionID) ==
    /\ LET x == DestroyCall(cache, sessionID) IN
          /\ cache' = x.cache
          /\ last' = Call("Destroy", sessionID, x.err)
    /\ UNCHANGED <<now, minted, cfg, signingKey, ent, resp, sigIn, sigOut, calls, mutex,
                   tokIn, tokOut>>

Refresh(sessionID, duration) ==
    /\ LET r == RefreshCall(cache, sessionID, duration, now) IN
          /\ cache' = r.cache
          /\ last' = CallD("Refresh", sessionID, duration, r.err)
    /\ UNCHANGED <<now, minted, cfg, signingKey, ent, resp, sigIn, sigOut, calls, mutex,
                   tokIn, tokOut>>

RegenerateSessionID(oldSessionID, setErr) ==
    /\ minted < MaxIDs
    /\ LET r == IF setErr = ErrNil
                THEN RegenerateCall(cache, oldSessionID, uuidNew(minted + 1), now)
                ELSE RegenerateCallSet(cache, oldSessionID, uuidNew(minted + 1), now,
                                       setErr)
       IN /\ cache' = r.cache
          /\ last' = Call("RegenerateSessionID", oldSessionID, r.err)
          \* uuid.New() is reached only after the old session was loaded
          /\ minted' = IF r.err \in {ErrNil, ErrCache} THEN minted + 1 ELSE minted
    /\ UNCHANGED <<now, cfg, signingKey, ent, resp, sigIn, sigOut, calls, mutex,
                   tokIn, tokOut>>

\* s.Set(key, value) on the entity the caller holds
Set(key, value) ==
    /\ ent # NilSession
    /\ ent' = SessionDataSet(ent, key, value, now)
    /\ last' = Call("Set", ent.SessionID, ErrNil)
    /\ UNCHANGED <<now, cache, minted, cfg, signingKey, resp, sigIn, sigOut, calls, mutex,
                   tokIn, tokOut>>

\* the caller writes its entity back through the adapter, as
\* TestRegenerateSessionID does: cacheAdapter.Set(s.ID(), s, time.Until(s.Expiration)).
\* It does so for a session that is still stored.
Save ==
    /\ ent # NilSession
    /\ HasRecord(cache, ent.SessionID)
    /\ ent.Expiration > now
    /\ cache' = CacheAdapterSet(cache, ent.SessionID, ent, ent.Expiration - now, now)
    /\ last' = Call("Save", ent.SessionID, ErrNil)
    /\ UNCHANGED <<now, minted, cfg, signingKey, ent, resp, sigIn, sigOut, calls, mutex,
                   tokIn, tokOut>>

Next ==
    \/ Tick
    \/ \E d \in Durations : Create(d)
    \/ \E id \in CallIDs : Get(id)
    \/ \E id \in CallIDs \cup {InvalidID} : Destroy(id)
    \/ \E id \in CallIDs, d \in Durations : Refresh(id, d)
    \/ \E id \in CallIDs, e \in SetAnswers : RegenerateSessionID(id, e)
    \/ \E k \in DataKeys, v \in DataVals : Set(k, v)
    \/ Save

Spec == Init /\ [][Next]_vars

----------------------------------------------------------------------------
(* The manager behind HTTP: SetToResponse and GetFromRequest *)

\* the sessions a caller can hand to SetToResponse: the entity Create gave it
\* and the ones a Get returns
HeldSessions ==
    {s \in {ent} : s # NilSession} \cup
    {RecordAt(cache, id) : id \in {k \in MintedIDs : HasRecord(cache, k)}}

SetToResponse(s) ==
    /\ resp' = ResponseCookie(s)
    /\ last' = Call("SetToResponse", s.SessionID, ErrNil)
    /\ UNCHANGED <<now, cache, minted, cfg, signingKey, ent, sigIn, sigOut, calls, mutex,
                   tokIn, tokOut>>

\* the cookie values that reach GetFromRequest: the one the response carried,
\* that one cut short, without its signature, or signed with another key
CookieValues ==
    IF resp = NoCookie THEN {}
    ELSE LET v == resp.Value
             id == SplitN2(v)[1]
         IN {v, id, SubSeq(v, 1, Len(v) - 1), signSessionID(signingKey + 1, id)}

\* the requests that reach GetFromRequest, on every path: without the cookie
\* or with one of the cookie values
Requests ==
    {[present |-> FALSE, value |-> <<>>, path |-> p] : p \in RequestPaths} \cup
    {[present |-> TRUE, value |-> v, path |-> p] : v \in CookieValues, p \in RequestPaths}

GetFromRequest(r) ==
    /\ LET g == GetFromRequestCall(cache, r, now) IN
          /\ cache' = g.cache
          /\ last' = Call("GetFromRequest", g.id, g.err)
    /\ UNCHANGED <<now, minted, cfg, signingKey, ent, resp, sigIn, sigOut, calls, mutex,
                   tokIn, tokOut>>

InitHTTP ==
    /\ now = 0
    /\ cache = <<>>
    /\ minted = 0
    /\ cfg \in CookieConfigs
    /\ signingKey \in SigningKeys
    /\ ent = NilSession
    /\ resp = NoCookie
    /\ last = NoCall
    /\ sigIn = <<>>
    /\ sigOut = <<>>
    /\ calls = <<>>
    /\ mutex = <<>>
    /\ tokIn = <<>>
    /\ tokOut = <<>>

NextHTTP ==
    \/ Tick
    \/ \E d \in Durations : Create(d)
    \/ \E id \in CallIDs : Destroy(id)
    \/ \E s \in HeldSessions : SetToResponse(s)
    \/ \E r \in Requests : GetFromRequest(r)

SpecHTTP == InitHTTP /\ [][NextHTTP]_vars

----------------------------------------------------------------------------
(* verifySignature as a function of its input *)

RECURSIVE Strings(_)
Strings(n) ==
    IF n = 0 THEN {<<>>}
    ELSE LET shorter == Strings(n - 1) IN
         shorter \cup {Append(str, ch) : str \in {x \in shorter : Len(x) = n - 1}, ch \in Chars}

SigPending == <<"pending">>

InitSig ==
    /\ now = 0
    /\ cache = <<>>
    /\ minted = 0
    /\ cfg \in {c \in CookieConfigs : ~c.sessionCookie}
    /\ signingKey \in SigningKeys
    /\ ent = NilSession
    /\ resp = NoCookie
    /\ last = NoCall
    /\ sigIn \in Strings(MaxLen)
    /\ sigOut = SigPending
    /\ calls = <<>>
    /\ mutex = <<>>
    /\ tokIn = <<>>
    /\ tokOut = <<>>

Verify ==
    /\ sigOut = SigPending
    /\ sigOut' = verifySignature(signingKey, sigIn)
    /\ UNCHANGED <<now, cache, minted, cfg, signingKey, ent, resp, last, sigIn,
                 calls, mutex, tokIn, tokOut>>

NextSig == Verify

SpecSig == InitSig /\ [][NextSig]_vars

----------------------------------------------------------------------------
(* The manager over a cache that is also written directly: through the      *)
(* adapter with any data, and behind the adapter with foreign bytes         *)

\* []byte("invalid binary data")
Garbage == <<"invalid binary data">>

StoreIDs == CallIDs \cup {InvalidID}

\* the data a caller passes to the adapter's Set
StoreData == {NilData, SessionValue(ent)} \cup OtherValues

\* cacheAdapter.Set(sessionID, data, duration) called directly
AdapterSet(sessionID, data, duration) ==
    /\ LET r == CacheAdapterSetAny(cache, sessionID, data, duration, now) IN
          /\ cache' = r.cache
          /\ last' = CallD("AdapterSet", sessionID, duration, r.err)
    /\ UNCHANGED <<now, minted, cfg, signingKey, ent, resp, sigIn, sigOut, calls, mutex,
                   tokIn, tokOut>>

\* cacheAdapter.Cache.Set(key, []byte("invalid binary data"), duration)
Corrupt(sessionID, duration) ==
    /\ cache' = CacheSet(cache, sessionID, Garbage, duration, now)
    /\ last' = CallD("Corrupt", sessionID, duration, ErrNil)
    /\ UNCHANGED <<now, minted, cfg, signingKey, ent, resp, sigIn, sigOut, calls, mutex,
                   tokIn, tokOut>>

InitStore ==
    /\ Init
    /\ cfg.MaxSessionDuration = 0
    /\ cfg.InactivityTimeout = 0

NextStore ==
    \/ Tick
    \/ \E d \in Durations : Create(d)
    \/ \E id \in CallIDs : Get(id)
    \/ \E id \in CallIDs, data \in StoreData, d \in {MaxDuration} : AdapterSet(id, data, d)
    \/ \E id \in CallIDs, d \in {MaxDuration} : Corrupt(id, d)

SpecStore == InitStore /\ [][NextStore]_vars

----------------------------------------------------------------------------
(* RegenerateSessionID called concurrently: several manager processes over  *)
(* one cache, several calls in each process.  A call is a sequence of       *)
(* steps, one for each call it makes on the mutex or the cache; the other   *)
(* calls and the clock move between them.                                   *)

CallSet == 1..MaxCalls

Procs == 1..MaxProcs

\* the manager process a call runs in
ProcOf(c) == ((c - 1) % MaxProcs) + 1

\* sessions outlive the lock by far (30 minutes against 5 seconds)
LongDuration == 2 * LockTTL

\* the clock is read after stalls of the lock's TTL, until the session ends
ConcMaxTime == LongDuration

\* lockedAt: the time at which the call's Add of the lock succeeded
IdleCall ==
    [pc |-> "idle", old |-> <<>>, sess |-> NilSession, err |-> ErrNil, new |-> <<>>,
     lockedAt |-> 0]

SetCall(c, rec) == [calls EXCEPT ![c] = rec]

\* RegenerateSessionID(ctx, oldSessionID) is called
Invoke(c, oldSessionID) ==
    /\ calls[c].pc = "idle"
    /\ calls' = SetCall(c, [calls[c] EXCEPT !.pc = "lock", !.old = oldSessionID])
    /\ UNCHANGED <<now, cache, minted, cfg, signingKey, ent, resp, last, sigIn, sigOut,
                   mutex, tokIn, tokOut>>

\* a Lock that does not wait for the mutex to be free
MutexLock_NoWait(c) ==
    /\ calls[c].pc = "lock"
    /\ mutex' = [mutex EXCEPT ![ProcOf(c)] = c]
    /\ calls' = SetCall(c, [calls[c] EXCEPT !.pc = "add"])
    /\ UNCHANGED <<now, cache, minted, cfg, signingKey, ent, resp, last, sigIn, sigOut,
                   tokIn, tokOut>>

\* m.sessionLock.Lock()
MutexLock(c) ==
    /\ calls[c].pc = "lock"
    /\ mutex[ProcOf(c)] = 0
    /\ mutex' = [mutex EXCEPT ![ProcOf(c)] = c]
    /\ calls' = SetCall(c, [calls[c] EXCEPT !.pc = "add"])
    /\ UNCHANGED <<now, cache, minted, cfg, signingKey, ent, resp, last, sigIn, sigOut,
                   tokIn, tokOut>>

\* the lock entry written with Set, whether or not one is there
LockAdd_Overwrite(c) ==
    /\ calls[c].pc = "add"
    /\ cache' = CacheSet(cache, LockKey(calls[c].old), <<"str", "hyy_locked">>, LockTTL, now)
    /\ calls' = SetCall(c, [calls[c] EXCEPT !.pc = "get"])
    /\ UNCHANGED <<now, minted, cfg, signingKey, ent, resp, last, sigIn, sigOut, mutex,
                   tokIn, tokOut>>

\* cacheAdapter.Add(lockKey, lockValue, 5s); on "exists" the call returns the
\* contention error and the deferred Unlock runs
LockAdd(c) ==
    /\ calls[c].pc = "add"
    /\ LET a == CacheAdapterAdd(cache, LockKey(calls[c].old), "hyy_locked", LockTTL, now) IN
          IF a.err # ErrNil
          THEN /\ calls' = SetCall(c, [calls[c] EXCEPT !.pc = "done", !.err = ErrLock])
               /\ mutex' = [mutex EXCEPT ![ProcOf(c)] = 0]
               /\ cache' = cache
          ELSE /\ calls' = SetCall(c, [calls[c] EXCEPT !.pc = "get", !.lockedAt = now])
               /\ cache' = a.cache
               /\ mutex' = mutex
    /\ UNCHANGED <<now, minted, cfg, signingKey, ent, resp, last, sigIn, sigOut,
                   tokIn, tokOut>>

\* sess, err := m.Get(ctx, oldSessionID); on an error the call returns it
Load(c) ==
    /\ calls[c].pc = "get"
    /\ LET g == GetCall(cache, calls[c].old, now) IN
          /\ cache' = g.cache
          /\ calls' = SetCall(c, IF g.err # ErrNil
                                 THEN [calls[c] EXCEPT !.pc = "release", !.err = g.err]
                                 ELSE [calls[c] EXCEPT !.pc = "persist", !.sess = g.res])
    /\ UNCHANGED <<now, minted, cfg, signingKey, ent, resp, last, sigIn, sigOut, mutex,
                   tokIn, tokOut>>

\* the new ID and entity, the copy of Data, cacheAdapter.Set(newSessionID, ...)
Persist(c) ==
    /\ calls[c].pc = "persist"
    /\ LET newSessionID == uuidNew(minted + 1)
           sess == calls[c].sess
           fresh == NewSessionData(newSessionID, generateSecurityToken(now),
                                   ExpireAt(sess) - now, now)
           newSessionData == [fresh EXCEPT !.Data = CopyData(fresh.Data, sess.Data)]
       IN /\ cache' = CacheAdapterSet(cache, newSessionID, newSessionData,
                                      newSessionData.Expiration - now, now)
          /\ calls' = SetCall(c, [calls[c] EXCEPT !.pc = "delete", !.new = newSessionID])
    /\ minted' = minted + 1
    /\ UNCHANGED <<now, cfg, signingKey, ent, resp, last, sigIn, sigOut, mutex,
                   tokIn, tokOut>>

\* cacheAdapter.Delete(oldSessionID)
DeleteOld(c) ==
    /\ calls[c].pc = "delete"
    /\ cache' = CacheAdapterDelete(cache, calls[c].old)
    /\ calls' = SetCall(c, [calls[c] EXCEPT !.pc = "release"])
    /\ UNCHANGED <<now, minted, cfg, signingKey, ent, resp, last, sigIn, sigOut, mutex,
                   tokIn, tokOut>>

\* the deferred calls on return: cacheAdapter.Delete(lockKey), then Unlock
Release(c) ==
    /\ calls[c].pc = "release"
    /\ cache' = CacheAdapterDelete(cache, LockKey(calls[c].old))
    /\ mutex' = [mutex EXCEPT ![ProcOf(c)] = 0]
    /\ calls' = SetCall(c, [calls[c] EXCEPT !.pc = "done"])
    /\ UNCHANGED <<now, minted, cfg, signingKey, ent, resp, last, sigIn, sigOut,
                   tokIn, tokOut>>

\* every step of a call after it was made
StepCall(c) ==
    \/ MutexLock(c)
    \/ LockAdd(c)
    \/ Load(c)
    \/ Persist(c)
    \/ DeleteOld(c)
    \/ Release(c)

\* the running calls stall for as long as a lock lives
TickConc ==
    /\ now < ConcMaxTime
    /\ now' = now + LockTTL
    /\ cache' = CacheExpire(cache, now + LockTTL)
    /\ UNCHANGED <<minted, cfg, signingKey, ent, resp, last, sigIn, sigOut, calls, mutex,
                   tokIn, tokOut>>

\* the session the calls rotate
CreateConc ==
    /\ minted = 0
    /\ Create(LongDuration)

InitConc ==
    /\ now = 0
    /\ cache = <<>>
    /\ minted = 0
    /\ cfg \in {c \in Configs : c.MaxSessionDuration = 0 /\ c.InactivityTimeout = 0}
    /\ signingKey = 1
    /\ ent = NilSession
    /\ resp = NoCookie
    /\ last = NoCall
    /\ sigIn = <<>>
    /\ sigOut = <<>>
    /\ calls = [c \in CallSet |-> IdleCall]
    /\ mutex = [p \in Procs |-> 0]
    /\ tokIn = <<>>
    /\ tokOut = <<>>

NextConc ==
    \/ TickConc
    \/ CreateConc
    \/ \E c \in CallSet, id \in CallIDs : Invoke(c, id)
    \/ \E c \in CallSet : MutexLock(c)
    \/ \E c \in CallSet : LockAdd(c)
    \/ \E c \in CallSet : Load(c)
    \/ \E c \in CallSet : Persist(c)
    \/ \E c \in CallSet : DeleteOld(c)
    \/ \E c \in CallSet : Release(c)

SpecConc == InitConc /\ [][NextConc]_vars

\* goroutines are scheduled fairly: a call that can take a step takes one
FairConc == SpecConc /\ \A c \in CallSet : WF_vars(StepCall(c))

----------------------------------------------------------------------------
(* Concurrent workers, TestConcurrency: each goroutine runs Create, then Set
   on the entity Create returned, and the entity is read back. Create is two
   steps, the new ID and entity first and the cache write second, so that the
   workers interleave inside it. The entities live in a heap, ent, and a
   worker holds the address of its own. *)

Workers == 1..MaxWorkers

WorkerKey(w) == <<"key", w>>

WorkerValue(w) == <<"value", w>>

IdleWorker == [pc |-> "start", id |-> <<>>, ptr |-> 0, val |-> <<"nil", FALSE>>]

\* sessionID := uuid.New().String(); sessionData := NewSessionData(...)
WorkerNew(w) ==
    /\ calls[w].pc = "start"
    /\ LET sessionID == uuidNew(minted + 1)
           sessionData == NewSessionData(sessionID, generateSecurityToken(now),
                                         WorkerDuration, now)
       IN /\ ent' = Append(ent, sessionData)
          /\ calls' = [calls EXCEPT ![w] = [@ EXCEPT !.pc = "new", !.id = sessionID,
                                                     !.ptr = Len(ent) + 1]]
    /\ minted' = minted + 1
    /\ UNCHANGED <<now, cache, cfg, signingKey, resp, last, sigIn, sigOut, mutex,
                   tokIn, tokOut>>

\* m.cacheAdapter.Set(sessionID, sessionData, duration); return sessionData
WorkerStore(w) ==
    /\ calls[w].pc = "new"
    /\ cache' = CacheAdapterSet(cache, calls[w].id, ent[calls[w].ptr],
                                WorkerDuration, now)
    /\ calls' = [calls EXCEPT ![w] = [@ EXCEPT !.pc = "created"]]
    /\ UNCHANGED <<now, minted, cfg, signingKey, ent, resp, last, sigIn, sigOut,
                   mutex, tokIn, tokOut>>

\* sess.Set(key, value)
WorkerSet(w) ==
    /\ calls[w].pc = "created"
    /\ ent' = [ent EXCEPT ![calls[w].ptr] =
                   SessionDataSet(@, WorkerKey(w), WorkerValue(w), now)]
    /\ calls' = [calls EXCEPT ![w] = [@ EXCEPT !.pc = "set"]]
    /\ UNCHANGED <<now, cache, minted, cfg, signingKey, resp, last, sigIn, sigOut,
                   mutex, tokIn, tokOut>>

\* val, found := session.Get(key)
WorkerRead(w) ==
    /\ calls[w].pc = "set"
    /\ LET g == SessionDataGet(ent[calls[w].ptr], WorkerKey(w), now) IN
          /\ ent' = [ent EXCEPT ![calls[w].ptr] = g.s]
          /\ calls' = [calls EXCEPT ![w] = [@ EXCEPT !.pc = "done", !.val = g.val]]
    /\ UNCHANGED <<now, cache, minted, cfg, signingKey, resp, last, sigIn, sigOut,
                   mutex, tokIn, tokOut>>

InitWorkers ==
    /\ now = 0
    /\ cache = <<>>
    /\ minted = 0
    /\ cfg \in Configs
    /\ cfg.MaxSessionDuration = 0
    /\ cfg.InactivityTimeout = 0
    /\ signingKey = 0
    /\ ent = <<>>
    /\ resp = NoCookie
    /\ last = NoCall
    /\ sigIn = <<>>
    /\ sigOut = <<>>
    /\ calls = [w \in Workers |-> IdleWorker]
    /\ mutex = <<>>
    /\ tokIn = <<>>
    /\ tokOut = <<>>

NextWorkers ==
    \/ Tick
    \/ \E w \in Workers : WorkerNew(w)
    \/ \E w \in Workers : WorkerStore(w)
    \/ \E w \in Workers : WorkerSet(w)
    \/ \E w \in Workers : WorkerRead(w)

SpecWorkers == InitWorkers /\ [][NextWorkers]_vars

----------------------------------------------------------------------------
(* Security tokens. A token is base64url of the random bytes,
   the big-endian timestamp and, for validation, a signature. Bytes have two
   bits here, as in the codec of the cookie signature. *)

Bytes == 0..3

RECURSIVE Pow4(_)
Pow4(n) == IF n = 0 THEN 1 ELSE 4 * Pow4(n - 1)

\* byte(timestamp>>24), byte(timestamp>>16), byte(timestamp>>8), byte(timestamp)
TsBytes(timestamp) == [i \in 1..TsLen |-> (timestamp \div Pow4(TsLen - i)) % 4]

\* int64(data[32])<<24 | int64(data[33])<<16 | int64(data[34])<<8 | int64(data[35])
RECURSIVE TsValue(_)
TsValue(bytes) ==
    IF bytes = <<>> THEN 0
    ELSE Head(bytes) * Pow4(Len(bytes) - 1) + TsValue(Tail(bytes))

RECURSIVE ByteDigest(_, _)
ByteDigest(data, i) ==
    IF i > Len(data) THEN 0 ELSE i * (data[i] + 1) + ByteDigest(data, i + 1)

\* hmac.New(sha256.New, secretKey); Write(token); Sum(nil): HashLen bytes
hmacSumBytes(secretKey, data) ==
    [i \in 1..HashLen |-> (secretKey + i * ByteDigest(data, 1)) % 4]

\* mac.Sum(nil)[:4]
generateTokenSignature(token, secretKey) ==
    SubSeq(hmacSumBytes(secretKey, token), 1, SigLen)

\* generateSecurityToken with the bytes rand.Read gave and the clock at t
generateSecurityTokenAt(random, t) == EncodeToString(random \o TsBytes(t))

\* base64.URLEncoding.EncodedLen
EncodedLen(n) == 2 * n

\* a validation without the drift window
validateSecurityToken_NoDrift(token, secretKey, t) ==
    IF Len(token) < EncodedLen(RandLen + TsLen + SigLen) THEN FALSE
    ELSE LET dec == DecodeString(token)
             data == dec.bytes
         IN IF dec.err # ErrNil \/ Len(data) < RandLen + TsLen + SigLen THEN FALSE
            ELSE SubSeq(data, RandLen + TsLen + 1, RandLen + TsLen + SigLen)
                     = generateTokenSignature(SubSeq(data, 1, RandLen), secretKey)

\* validateSecurityToken with the clock at t
validateSecurityToken(token, secretKey, t) ==
    IF Len(token) < EncodedLen(RandLen + TsLen + SigLen) THEN FALSE
    ELSE LET dec == DecodeString(token)
             data == dec.bytes
             timestamp == TsValue(SubSeq(data, RandLen + 1, RandLen + TsLen))
         IN IF dec.err # ErrNil \/ Len(data) < RandLen + TsLen + SigLen THEN FALSE
            ELSE IF t - timestamp > TokenHour /\ timestamp > t THEN FALSE
            ELSE IF timestamp < t - MaxDrift \/ timestamp > t + MaxDrift THEN FALSE
            ELSE SubSeq(data, RandLen + TsLen + 1, RandLen + TsLen + SigLen)
                     = generateTokenSignature(SubSeq(data, 1, RandLen), secretKey)

\* a refresh that compares the age with the cooldown the other way round
refreshSecurityToken_Inverted(oldToken, secretKey, t1, t2, random) ==
    IF ~validateSecurityToken(oldToken, secretKey, t1)
    THEN [token |-> <<>>, err |-> "invalid token"]
    ELSE LET data == DecodeString(oldToken).bytes
             timestamp == TsValue(SubSeq(data, RandLen + 1, RandLen + TsLen))
         IN IF Len(data) < RandLen + TsLen
            THEN [token |-> <<>>, err |-> "invalid token format"]
            ELSE IF t2 - timestamp >= RefreshCooldown
            THEN [token |-> oldToken, err |-> ErrNil]
            ELSE [token |-> generateSecurityTokenAt(random, t2), err |-> ErrNil]

\* refreshSecurityToken: the clock is at t1 when the token is validated and
\* at t2 >= t1 when its age is taken; random is what rand.Read gives
refreshSecurityToken(oldToken, secretKey, t1, t2, random) ==
    IF ~validateSecurityToken(oldToken, secretKey, t1)
    THEN [token |-> <<>>, err |-> "invalid token"]
    ELSE LET data == DecodeString(oldToken).bytes
             timestamp == TsValue(SubSeq(data, RandLen + 1, RandLen + TsLen))
         IN IF Len(data) < RandLen + TsLen
            THEN [token |-> <<>>, err |-> "invalid token format"]
            ELSE IF t2 - timestamp < RefreshCooldown
            THEN [token |-> oldToken, err |-> ErrNil]
            ELSE [token |-> generateSecurityTokenAt(random, t2), err |-> ErrNil]

\* all byte strings of length n
ByteStrings(n) == [1..n -> Bytes]

\* what rand.Read gives when a token is minted: two of the byte strings
FreshBytes == {[i \in 1..RandLen |-> b] : b \in {0, 3}}

\* the shapes of the tokens handed in: with a signature, with a surplus byte
\* behind it, as generateSecurityToken makes them, with a character outside
\* the alphabet, and cut to an odd length
TokenShapes == {"signed", "long", "minted", "badchar", "odd"}

\* the timestamps tried, as offsets from the clock
TsOffsets ==
    {0 - TokenHour - 1, 0 - RefreshCooldown, 0 - MaxDrift - 1, 0 - MaxDrift, 0,
     MaxDrift, MaxDrift + 1}

\* the time that passes inside refreshSecurityToken between the validation
\* and the reading of the age
RefreshDelays ==
    {0, RefreshCooldown - MaxDrift - 1, RefreshCooldown - MaxDrift, RefreshCooldown}

TokenInputs ==
    [shape : TokenShapes, random : ByteStrings(RandLen), ts : {TokenNow + o : o \in TsOffsets},
     sig : ByteStrings(SigLen), key : SigningKeys, delay : RefreshDelays,
     fresh : FreshBytes]

\* the token string of an input
TokenOf(in) ==
    LET signed == EncodeToString(in.random \o TsBytes(in.ts) \o in.sig) IN
    CASE in.shape = "signed" -> signed
      [] in.shape = "long" -> signed \o EncodeToString(<<0>>)
      [] in.shape = "minted" -> generateSecurityTokenAt(in.random, in.ts)
      [] in.shape = "badchar" -> [signed EXCEPT ![1] = "!"]
      [] OTHER -> SubSeq(signed, 1, Len(signed) - 1)

TokPending == [op |-> "none"]

InitTok ==
    /\ now = TokenNow
    /\ cache = <<>>
    /\ minted = 0
    /\ cfg \in Configs
    /\ cfg.MaxSessionDuration = 0
    /\ cfg.InactivityTimeout = 0
    /\ signingKey = 1
    /\ ent = NilSession
    /\ resp = NoCookie
    /\ last = NoCall
    /\ sigIn = <<>>
    /\ sigOut = <<>>
    /\ calls = <<>>
    /\ mutex = <<>>
    /\ tokIn \in TokenInputs
    /\ tokOut = TokPending

ValidateToken ==
    /\ tokOut = TokPending
    /\ tokOut' = [op |-> "validate",
                  valid |-> validateSecurityToken(TokenOf(tokIn), tokIn.key, now)]
    /\ UNCHANGED <<now, cache, minted, cfg, signingKey, ent, resp, last, sigIn, sigOut,
                   calls, mutex, tokIn>>

RefreshToken ==
    /\ tokOut = TokPending
    /\ LET r == refreshSecurityToken(TokenOf(tokIn), tokIn.key, now,
                                     now + tokIn.delay, tokIn.fresh)
       IN tokOut' = [op |-> "refresh", token |-> r.token, err |-> r.err]
    /\ now' = now + tokIn.delay
    /\ UNCHANGED <<cache, minted, cfg, signingKey, ent, resp, last, sigIn, sigOut,
                   calls, mutex, tokIn>>

NextTok == ValidateToken \/ RefreshToken

SpecTok == InitTok /\ [][NextTok]_vars

----------------------------------------------------------------------------
(* Lock-free Get and Refresh, step by step. Get is a cache read, then Touch
   and a cache write; Refresh is a Get, then Renew and a second cache write.
   Nothing holds the record in between, so the clock may advance and Destroy
   or RegenerateSessionID of another request handler may run between the
   steps. *)

RaceCalls == 1..MaxRace

IdleRace ==
    [pc |-> "idle", op |-> "none", id |-> <<>>, d |-> 0, data |-> NilSession,
     err |-> ErrNil]

\* an expiry later than every expiry the model sets: the entry stays
NoExpiration == MaxTime + MaxDuration + TombstoneTTL + LockTTL + 1

\* Cache.Set as Get calls it, with ttl = time.Until(data.Expiration). What the
\* external cache does with a ttl of zero or less is not fixed by its
\* interface: it may refuse, store an entry that is already expired, or store
\* one that never expires.
CacheSetOutcomes(c, k, bytes, ttl, t) ==
    IF ttl > 0
    THEN {[cache |-> CacheSet(c, k, bytes, ttl, t), err |-> ErrNil]}
    ELSE {[cache |-> c, err |-> ErrTTL],
          [cache |-> CacheDelete(c, k), err |-> ErrNil],
          [cache |-> CachePut(c, k, [bytes |-> bytes, exp |-> NoExpiration]),
           err |-> ErrNil]}

\* Get up to its inactivity check: found, err := m.cacheAdapter.Get(...); a
\* read that finds nothing leaves the tombstone to a second cache call
RaceRead(c, op, sessionID, duration) ==
    /\ calls[c].pc = "idle"
    /\ LET r == CacheAdapterGet(cache, sessionID)
           call == [IdleRace EXCEPT !.op = op, !.id = sessionID, !.d = duration]
       IN IF r.err # ErrNil
          THEN /\ cache' = cache
               /\ calls' = [calls EXCEPT ![c] = [call EXCEPT !.pc = "done", !.err = r.err]]
          ELSE IF ~r.found
          THEN /\ cache' = cache
               /\ calls' = [calls EXCEPT ![c] = [call EXCEPT !.pc = "absent"]]
          ELSE IF checkInactivity(r.data, now)
          THEN /\ cache' = DestroyCall(cache, sessionID).cache
               /\ calls' = [calls EXCEPT ![c] =
                                [call EXCEPT !.pc = "done", !.err = ErrInactive]]
          ELSE /\ cache' = cache
               /\ calls' = [calls EXCEPT ![c] = [call EXCEPT !.pc = "loaded", !.data = r.data]]
    /\ UNCHANGED <<now, minted, cfg, signingKey, ent, resp, last, sigIn, sigOut, mutex,
                   tokIn, tokOut>>

\* Get after a read that found nothing: cacheAdapter.Set(sessionID, nil, 5s);
\* return nil, errors.New("session not found")
RaceTombstone(c) ==
    /\ calls[c].pc = "absent"
    /\ cache' = CacheAdapterSetNil(cache, calls[c].id, TombstoneTTL, now)
    /\ calls' = [calls EXCEPT ![c] = [@ EXCEPT !.pc = "done", !.err = ErrNotFound]]
    /\ UNCHANGED <<now, minted, cfg, signingKey, ent, resp, last, sigIn, sigOut, mutex,
                   tokIn, tokOut>>

\* the rest of Get: data.Touch(); cacheAdapter.Set(sessionID, &data,
\* time.Until(data.Expiration)); return &data, nil
RaceWrite(c) ==
    /\ calls[c].pc = "loaded"
    /\ LET data == Touch(calls[c].data, now) IN
       \E o \in CacheSetOutcomes(cache, calls[c].id, gobEncode(data),
                                 data.Expiration - now, now) :
          /\ cache' = o.cache
          /\ calls' = [calls EXCEPT ![c] =
                 [@ EXCEPT !.data = IF o.err = ErrNil THEN data ELSE NilSession,
                           !.err = o.err,
                           !.pc = IF o.err = ErrNil /\ calls[c].op = "Refresh"
                                  THEN "got" ELSE "done"]]
    /\ UNCHANGED <<now, minted, cfg, signingKey, ent, resp, last, sigIn, sigOut, mutex,
                   tokIn, tokOut>>

\* the rest of Refresh: sd.Renew(duration); the clamp; cacheAdapter.Set
RaceRenew(c) ==
    /\ calls[c].pc = "got"
    /\ LET sd == Renew(calls[c].data, calls[c].d, now)
           ttl == IF cfg.MaxSessionDuration > 0
                  THEN min(calls[c].d, cfg.MaxSessionDuration)
                  ELSE calls[c].d
       IN /\ cache' = CacheAdapterSet(cache, calls[c].id, sd, ttl, now)
          /\ calls' = [calls EXCEPT ![c] = [@ EXCEPT !.data = sd, !.pc = "done"]]
    /\ UNCHANGED <<now, minted, cfg, signingKey, ent, resp, last, sigIn, sigOut, mutex,
                   tokIn, tokOut>>

\* the session the calls work on
CreateRace(duration) ==
    /\ minted = 0
    /\ Create(duration)

InitRace ==
    /\ now = 0
    /\ cache = <<>>
    /\ minted = 0
    /\ cfg \in {c \in Configs : c.InactivityTimeout = 0}
    /\ signingKey = 1
    /\ ent = NilSession
    /\ resp = NoCookie
    /\ last = NoCall
    /\ sigIn = <<>>
    /\ sigOut = <<>>
    /\ calls = [c \in RaceCalls |-> IdleRace]
    /\ mutex = <<>>
    /\ tokIn = <<>>
    /\ tokOut = <<>>

NextRace ==
    \/ Tick
    \/ \E d \in Durations : CreateRace(d)
    \/ \E id \in CallIDs : Destroy(id)
    \/ \E id \in CallIDs, e \in SetAnswers : RegenerateSessionID(id, e)
    \/ \E c \in RaceCalls, id \in CallIDs : RaceRead(c, "Get", id, 0)
    \/ \E c \in RaceCalls, id \in CallIDs : RaceRead(c, "Refresh", id, MaxDuration)
    \/ \E c \in RaceCalls : RaceTombstone(c)
    \/ \E c \in RaceCalls : RaceWrite(c)
    \/ \E c \in RaceCalls : RaceRenew(c)

SpecRace == InitRace /\ [][NextRace]_vars

----------------------------------------------------------------------------
(* Properties *)

\* the times at which a later call is made
LaterTimes == now..(MaxTime + MaxDuration)

\* whether a record last active at time la is past the inactivity timeout at t
Stale(la, t) == cfg.InactivityTimeout > 0 /\ t - la > cfg.InactivityTimeout

\* C1: a successful RegenerateSessionID(old) of a stored session with Data D
\* returns new # old; Get(new), made at any later time before the session
\* runs out, succeeds and returns exactly the Data D; Get(old) after it
\* returns NotFound.
C1_RegenerateMovesData ==
    \A old \in CallIDs :
        (minted < MaxIDs /\ HasRecord(cache, old)) =>
            LET D == RecordAt(cache, old).Data
                r == RegenerateCall(cache, old, uuidNew(minted + 1), now)
            IN r.err = ErrNil =>
                /\ r.new # old
                /\ \A t \in LaterTimes :
                      LET g == GetCall(CacheExpire(r.cache, t), r.new, t)
                          h == GetCall(g.cache, old, t)
                      IN /\ (t < r.res.Expiration /\ ~Stale(now, t)) =>
                                (g.err = ErrNil /\ g.res.Data = D
                                 /\ g.res.SessionID = r.new)
                         /\ h.err = ErrNotFound

\* a regeneration of a session with a key in its Data has just succeeded
C1_Witness ==
    /\ last.op = "RegenerateSessionID"
    /\ last.err = ErrNil
    /\ HasRecord(cache, uuidNew(minted))
    /\ DOMAIN RecordAt(cache, uuidNew(minted)).Data # {}
    /\ ~HasRecord(cache, last.id)

\* C2: with InactivityTimeout = T > 0, Get of a stored record with
\* now - LastActive > T removes the record and returns the inactivity error,
\* and every later Get of the ID returns NotFound; with now - LastActive <= T
\* or T = 0 the Get succeeds.
C2_InactivityEviction ==
    \A id \in CallIDs :
        HasRecord(cache, id) =>
            LET rec == RecordAt(cache, id)
                g == GetCall(cache, id, now)
            IN IF cfg.InactivityTimeout > 0
                  /\ now - rec.LastActive > cfg.InactivityTimeout
               THEN /\ g.err = ErrInactive
                    /\ id \notin DOMAIN g.cache
                    /\ \A t \in LaterTimes :
                          LET h1 == GetCall(CacheExpire(g.cache, t), id, t)
                              h2 == GetCall(h1.cache, id, t)
                          IN h1.err = ErrNotFound /\ h2.err = ErrNotFound
               ELSE g.err = ErrNil

\* a Get has just evicted a session for inactivity
C2_Witness ==
    /\ last.op = "Get"
    /\ last.err = ErrInactive
    /\ last.id \notin DOMAIN cache

\* C3: Create(d) followed by Get of the created ID, before expiry and before
\* the inactivity timeout, succeeds and returns the ID, Data and Expiration
\* of the created entity; LastActive does not decrease.
C3_CreateGetRoundTrip ==
    last.op = "Create" =>
        LET g == GetCall(cache, last.id, now) IN
        /\ ent.SessionID = last.id
        /\ (now < ent.Expiration /\ ~Stale(ent.LastActive, now)) =>
              /\ g.err = ErrNil
              /\ g.res.SessionID = ent.SessionID
              /\ g.res.Data = ent.Data
              /\ g.res.Expiration = ent.Expiration
              /\ g.res.LastActive >= ent.LastActive

\* a Get, made a while after Create, has returned the created record
C3_Witness ==
    /\ last.op = "Get"
    /\ last.err = ErrNil
    /\ last.id = ent.SessionID
    /\ HasRecord(cache, last.id)
    /\ RecordAt(cache, last.id) = [ent EXCEPT !.LastActive = now]
    /\ now > ent.LastActive

\* C4: a key set on a session entity is visible in the record the next
\* Manager.Get of that session ID returns (Create, Set("k","v"), Get(id),
\* Get("k") = ("v", true)).
C4_SetVisibleToNextGet ==
    last.op = "Set" =>
        LET g == GetCall(cache, ent.SessionID, now) IN
        g.err = ErrNil =>
            \A k \in DOMAIN ent.Data : MapGet(g.res.Data, k) = <<ent.Data[k], TRUE>>

\* C5: with MaxSessionDuration = M > 0, after a successful Refresh(id, d) at
\* time t the stored Expiration is t + min(d, M), so never later than t + M.
\* (Refresh touched the record at t: its LastActive is t.)
C5_RefreshClampsExpiration ==
    (last.op = "Refresh" /\ last.err = ErrNil /\ cfg.MaxSessionDuration > 0
        /\ HasRecord(cache, last.id)) =>
        LET rec == RecordAt(cache, last.id)
            M == cfg.MaxSessionDuration
        IN /\ rec.Expiration = rec.LastActive + (IF last.d < M THEN last.d ELSE M)
           /\ rec.Expiration <= rec.LastActive + M

\* C6: the cache entry of every stored session record runs out exactly at
\* the Expiration stored in the record.
C6_TTLAlignedWithExpiration ==
    \A k \in DOMAIN cache :
        HasRecord(cache, k) => cache[k].exp = RecordAt(cache, k).Expiration

\* C7: Destroy(id) returns nil and leaves no entry under id, so the next Get
\* of id fails; a second Destroy, or a Destroy of an absent id, changes
\* nothing in the cache.
C7_DestroyIdempotent ==
    \A id \in CallIDs \cup {InvalidID} :
        LET x == DestroyCall(cache, id)
            y == DestroyCall(x.cache, id)
        IN /\ x.err = ErrNil
           /\ y.err = ErrNil
           /\ ~HasRecord(x.cache, id)
           /\ id \notin DOMAIN x.cache
           /\ y.cache = x.cache
           /\ (id \notin DOMAIN cache => x.cache = cache)
           /\ \A k \in DOMAIN cache \ {id} : k \in DOMAIN x.cache /\ x.cache[k] = cache[k]
           /\ \A t \in LaterTimes :
                 GetCall(CacheExpire(x.cache, t), id, t).err = ErrNotFound

\* a stored session has just been destroyed
C7_Witness ==
    /\ last.op = "Destroy"
    /\ last.err = ErrNil
    /\ last.id \in MintedIDs
    /\ last.id = ent.SessionID
    /\ now < ent.Expiration
    /\ last.id \notin DOMAIN cache

\* C8: after a successful Refresh(id, d) at time t, Get(id) succeeds at every
\* time before t + min(d, MaxSessionDuration) (t + d when no maximum is
\* configured) at which the inactivity timeout has not passed, whatever the
\* expiry was before the Refresh.
C8_RefreshExtendsLife ==
    \A id \in CallIDs, d \in Durations :
        LET r == RefreshCall(cache, id, d, now)
            M == cfg.MaxSessionDuration
            life == IF M > 0 /\ M < d THEN M ELSE d
        IN r.err = ErrNil =>
              \A t \in LaterTimes :
                  (t < now + life /\ ~Stale(now, t)) =>
                      GetCall(CacheExpire(r.cache, t), id, t).err = ErrNil

\* a Get has succeeded at or after the expiry the session was created with
C8_Witness ==
    /\ last.op = "Get"
    /\ last.err = ErrNil
    /\ last.id = ent.SessionID
    /\ now >= ent.Expiration
    /\ HasRecord(cache, last.id)

\* C9: the cookie value SetToResponse emits for a session verifies to that
\* session's ID, and GetFromRequest on a request carrying it passes the cookie
\* and signature checks and is the Get of that ID.
C9_SignVerifyRoundTrip ==
    /\ \A s \in HeldSessions :
          LET v == ResponseCookie(s).Value
              g == GetFromRequestCall(cache, [present |-> TRUE, value |-> v, path |-> SubPath], now)
              x == GetCall(cache, s.SessionID, now)
          IN /\ verifySignature(signingKey, v) = <<s.SessionID, TRUE>>
             /\ g.id = s.SessionID
             /\ g.err \notin {ErrNoCookie, ErrSignature}
             /\ g.err = x.err /\ g.cache = x.cache /\ g.res = x.res
    /\ last.op = "SetToResponse" =>
          verifySignature(signingKey, resp.Value) = <<last.id, TRUE>>

\* GetFromRequest has resolved the emitted cookie to a stored session
C9_Witness ==
    /\ last.op = "GetFromRequest"
    /\ last.err = ErrNil
    /\ resp # NoCookie
    /\ verifySignature(signingKey, resp.Value) = <<last.id, TRUE>>
    /\ HasRecord(cache, last.id)

\* C10: verifySignature returns ok = FALSE for an input without ".", for one
\* whose part after the first "." is not valid base64url, and for one whose
\* decoded signature is not the HMAC of the part before the first "."; it
\* returns ok = TRUE only when the decoded signature is that HMAC, and then the
\* ID it returns is the part before the first ".".
C10_VerifyFailsClosed ==
    sigOut # SigPending =>
        LET ok == sigOut[2]
            dots == {i \in 1..Len(sigIn) : sigIn[i] = "."}
        IN IF dots = {} THEN ~ok
           ELSE LET p == CHOOSE i \in dots : \A j \in dots : i <= j
                    idPart == SubSeq(sigIn, 1, p - 1)
                    sigPart == SubSeq(sigIn, p + 1, Len(sigIn))
                    dec == DecodeString(sigPart)
                    expected == hmacSum(signingKey, idPart)
                IN /\ dec.err # ErrNil => ~ok
                   /\ (dec.err = ErrNil /\ dec.bytes # expected) => ~ok
                   /\ ok => (dec.err = ErrNil /\ dec.bytes = expected
                               /\ sigOut[1] = idPart)
                   /\ (dec.err = ErrNil /\ dec.bytes = expected) => ok

\* an input with an ID part and a well-formed signature that is not the HMAC
\* of that ID has been rejected
C10_Witness ==
    /\ sigOut # SigPending
    /\ sigOut[2] = FALSE
    /\ sigOut[1] # <<>>
    /\ \E i \in 1..Len(sigIn) : sigIn[i] = "."

\* C11: a request without the named cookie gets the cookie-not-found error
\* and a request whose cookie fails the signature check gets the
\* invalid-signature error; in both cases nothing is returned and the cache
\* is left as it was (no Get, so no tombstone, no touch, no delete).
C11_ChecksBeforeGet ==
    \A r \in Requests :
        LET g == GetFromRequestCall(cache, r, now) IN
        /\ ~r.present =>
              (g.err = ErrNoCookie /\ g.cache = cache /\ g.res = NilSession)
        /\ (r.present /\ ~verifySignature(signingKey, r.value)[2]) =>
              (g.err = ErrSignature /\ g.cache = cache /\ g.res = NilSession)
        /\ (r.present /\ verifySignature(signingKey, r.value)[2]) =>
              g.err \notin {ErrNoCookie, ErrSignature}

\* a request with a badly signed cookie for a stored session has been refused
C11_Witness ==
    /\ last.op = "GetFromRequest"
    /\ last.err = ErrSignature
    /\ resp # NoCookie
    /\ HasRecord(cache, SplitN2(resp.Value)[1])

\* cookiePath matches requestPath: equal, or a prefix of it that ends in "/"
\* or is followed by "/" in requestPath
PathMatches(cookiePath, requestPath) ==
    \/ cookiePath = requestPath
    \/ /\ Len(cookiePath) < Len(requestPath)
       /\ SubSeq(requestPath, 1, Len(cookiePath)) = cookiePath
       /\ \/ cookiePath[Len(cookiePath)] = "/"
          \/ requestPath[Len(cookiePath) + 1] = "/"

\* C12: a validly signed cookie is accepted only on a request path that
\* matches the configured cookiePath; on any other path GetFromRequest
\* returns the path-mismatch error and leaves the cache as it was.
C12_PathMatching ==
    \A r \in Requests :
        (r.present /\ verifySignature(signingKey, r.value)[2]) =>
            LET g == GetFromRequestCall(cache, r, now) IN
            IF PathMatches(cfg.cookiePath, r.path)
            THEN g.err # ErrPathMismatch
            ELSE g.err = ErrPathMismatch /\ g.cache = cache

\* C13: after CacheAdapter.Set(id, nil, ttl) the cache holds a zero-length
\* value under id, CacheAdapter.Get(id) returns found = false with no error,
\* and Manager.Get(id) returns not found, whatever was under id before; so
\* every zero-length entry of the cache reads as not found.
C13_TombstoneReadsNotFound ==
    /\ \A id \in StoreIDs, ttl \in Durations \cup {TombstoneTTL} :
          LET x == CacheAdapterSetAny(cache, id, NilData, ttl, now)
              g == CacheAdapterGet(x.cache, id)
          IN /\ x.err = ErrNil
             /\ id \in DOMAIN x.cache
             /\ x.cache[id].bytes = <<>>
             /\ x.cache[id].exp = now + ttl
             /\ g.found = FALSE /\ g.err = ErrNil
             /\ GetCall(x.cache, id, now).err = ErrNotFound
    /\ \A k \in DOMAIN cache :
          cache[k].bytes = <<>> =>
              /\ CacheAdapterGet(cache, k).found = FALSE
              /\ CacheAdapterGet(cache, k).err = ErrNil
              /\ GetCall(cache, k, now).err = ErrNotFound

\* a tombstone has been set over a stored session record
C13_Witness ==
    /\ last.op = "AdapterSet"
    /\ last.err = ErrNil
    /\ last.id = ent.SessionID
    /\ now < ent.Expiration
    /\ last.id \in DOMAIN cache
    /\ cache[last.id].bytes = <<>>

\* C14: when the bytes under a session ID are non-empty and not an encoded
\* session record, Get returns the decode error (not "not found", no
\* session) and leaves the cache, those bytes and their expiry included, as
\* it was.
C14_DecodeErrorLeavesBytes ==
    \A k \in StoreIDs :
        (k \in DOMAIN cache /\ cache[k].bytes # <<>> /\ ~gobDecodable(cache[k].bytes)) =>
            LET g == GetCall(cache, k, now) IN
            /\ g.err = ErrDecode
            /\ g.err # ErrNotFound
            /\ g.res = NilSession
            /\ g.cache = cache

\* a Get has failed on foreign bytes written over a stored session
C14_Witness ==
    /\ last.op = "Get"
    /\ last.err = ErrDecode
    /\ last.id = ent.SessionID
    /\ last.id \in DOMAIN cache
    /\ cache[last.id].bytes = Garbage

\* C15: CacheAdapter.Set with data that is neither nil nor a *SessionData
\* returns the type error and writes nothing; a call that changes the cache
\* was given nil or a *SessionData.
C15_SetRejectsOtherTypes ==
    \A id \in StoreIDs, data \in StoreData, d \in Durations :
        LET x == CacheAdapterSetAny(cache, id, data, d, now) IN
        /\ data \in OtherValues => (x.err = ErrType /\ x.cache = cache)
        /\ x.cache # cache => data.type \in {"nil", "*SessionData"}
        /\ x.err = ErrNil =>
              (x.cache[id].bytes = <<>> \/ HasRecord(x.cache, id))

\* a Set with a value of another type was refused while a record is stored
C15_Witness ==
    /\ last.op = "AdapterSet"
    /\ last.err = ErrType
    /\ HasRecord(cache, last.id)

\* C16: when a RegenerateSessionID(oldID) that took the lock returns, with
\* the new ID or with an error, no lock entry for oldID is in the cache, and
\* a RegenerateSessionID(oldID) made right after is not refused for the lock.
C16_LockReleasedOnReturn ==
    /\ \A id \in CallIDs \cup {InvalidID} :
          LET r == RegenerateCall(cache, id, uuidNew(minted + 1), now)
              n == IF r.err = ErrNil THEN minted + 2 ELSE minted + 1
          IN r.err # ErrLock =>
                /\ LockKey(id) \notin DOMAIN r.cache
                /\ RegenerateCall(r.cache, id, uuidNew(n), now).err # ErrLock
    /\ last.op = "RegenerateSessionID" =>
          (last.err # ErrLock /\ LockKey(last.id) \notin DOMAIN cache)

\* a RegenerateSessionID has returned an error after taking the lock
C16_Witness ==
    /\ last.op = "RegenerateSessionID"
    /\ last.err \in {ErrNotFound, ErrInactive}
    /\ LockKey(last.id) \notin DOMAIN cache

\* the calls that hold the cache lock of a session ID: past their Add,
\* before their deferred Delete
InSection(c) == calls[c].pc \in {"get", "persist", "delete", "release"}

\* the calls that hold their process's mutex: past Lock, before Unlock
InBody(c) == calls[c].pc \in {"add", "get", "persist", "delete", "release"}

\* C17: for every session ID, at most one RegenerateSessionID call over all
\* manager processes is between its lock acquisition and its lock release,
\* however long the calls take.
C17_CrossProcessExclusion ==
    \A c1, c2 \in CallSet :
        (c1 # c2 /\ InSection(c1) /\ InSection(c2)) => calls[c1].old # calls[c2].old

\* C18: in one manager process no two RegenerateSessionID calls are in their
\* bodies at once, a call that has returned does not hold the mutex, and a
\* call waiting for the mutex eventually gets past it.
C18_MutexSerializes ==
    /\ [](\A c1, c2 \in CallSet :
            (c1 # c2 /\ InBody(c1) /\ InBody(c2)) => ProcOf(c1) # ProcOf(c2))
    /\ [](\A c \in CallSet : InBody(c) <=> mutex[ProcOf(c)] = c)
    /\ [](\A c \in CallSet : calls[c].pc = "done" => mutex[ProcOf(c)] # c)
    /\ \A c \in CallSet : (calls[c].pc = "lock") ~> (calls[c].pc # "lock")

\* a call has returned while another call of its process had been waiting
\* for the mutex, and that call now runs
C18_Witness ==
    \E c1, c2 \in CallSet :
        /\ c1 # c2
        /\ ProcOf(c1) = ProcOf(c2)
        /\ calls[c1].pc = "done"
        /\ calls[c1].new # <<>>
        /\ InBody(c2)

\* C19: a RegenerateSessionID(oldID) that finds the lock entry of oldID in the
\* cache returns the contention error and no ID, and its step leaves the
\* whole cache (the record of oldID and the other caller's lock entry
\* included) and the count of minted IDs as they were.
C19_ContentionAborts ==
    [][\A c \in CallSet :
          (calls[c].pc = "add" /\ calls'[c] # calls[c]
              /\ LockKey(calls[c].old) \in DOMAIN cache) =>
                /\ calls'[c].pc = "done"
                /\ calls'[c].err = ErrLock
                /\ calls'[c].new = <<>>
                /\ cache' = cache
                /\ minted' = minted]_vars

\* a call was refused for the lock another call holds on a stored session
C19_Witness ==
    \E c1, c2 \in CallSet :
        /\ calls[c1].pc = "done"
        /\ calls[c1].err = ErrLock
        /\ calls[c1].new = <<>>
        /\ InSection(c2)
        /\ calls[c2].old = calls[c1].old
        /\ LockKey(calls[c1].old) \in DOMAIN cache
        /\ HasRecord(cache, calls[c1].old)

\* C20: the record RegenerateSessionID stores under the new ID has the
\* Expiration the old record had when it was loaded, its cache entry runs out
\* at that Expiration, and the session's lifetime is not extended: the new
\* entry runs out when the old entry would have.
C20_RegeneratePreservesLifetime ==
    \A id \in CallIDs :
        LET new == uuidNew(minted + 1)
            r == RegenerateCall(cache, id, new, now)
        IN (HasRecord(cache, id) /\ r.err = ErrNil) =>
              /\ HasRecord(r.cache, new)
              /\ RecordAt(r.cache, new).Expiration = r.loaded.Expiration
              /\ RecordAt(r.cache, new).Expiration = RecordAt(cache, id).Expiration
              /\ r.cache[new].exp = RecordAt(r.cache, new).Expiration
              /\ r.cache[new].exp = cache[id].exp


----------------------------------------------------------------------------
(* C22 *)

\* the workers that hold a session
Holding(w) == calls[w].pc # "start"

\* C22: in every interleaving of the workers, two workers never hold the same
\* session ID, each worker's entity carries its own ID, after its Set the
\* entity's data is exactly its own key with its own value, and its read-back
\* returns that value as found.
C22_WorkersIsolated ==
    \A w \in Workers :
        Holding(w) =>
            /\ \A v \in Workers \ {w} : Holding(v) => calls[v].id # calls[w].id
            /\ ent[calls[w].ptr].SessionID = calls[w].id
            /\ calls[w].pc \in {"set", "done"} =>
                   /\ DOMAIN ent[calls[w].ptr].Data = {WorkerKey(w)}
                   /\ ent[calls[w].ptr].Data[WorkerKey(w)] = WorkerValue(w)
            /\ calls[w].pc = "done" => calls[w].val = <<WorkerValue(w), TRUE>>

\* C22 witness: every worker has read back, and the workers did interleave:
\* the last worker to start was not the last to get its value stored.
C22_Witness ==
    /\ \A w \in Workers : calls[w].pc = "done"
    /\ \E w, v \in Workers :
           /\ calls[w].ptr < calls[v].ptr
           /\ ent[calls[w].ptr].LastActive > ent[calls[v].ptr].LastActive


----------------------------------------------------------------------------
(* C23, C24 *)

\* the input has the decoded length validation asks for and decodes
TokWellFormed == tokIn.shape \in {"signed", "long"}

\* the input's signature is the truncated HMAC of its random bytes
TokSigned == tokIn.sig = generateTokenSignature(tokIn.random, tokIn.key)

\* the input's timestamp is within the drift window around the clock at t
TokInWindow(t) == t - MaxDrift <= tokIn.ts /\ tokIn.ts <= t + MaxDrift

RefreshStart == now - tokIn.delay

\* the old token was valid when the refresh validated it
TokValidAtStart == TokWellFormed /\ TokInWindow(RefreshStart) /\ TokSigned

\* C24: refreshSecurityToken returns an error and no token when the old token
\* fails validation; the old token unchanged when it is valid and younger
\* than the cooldown, and then a second refresh of the result gives the same
\* result; a newly minted token that differs from the old one when the old
\* token is valid and its age is the cooldown or more.
C24_RefreshCases ==
    tokOut.op = "refresh" =>
        LET old == TokenOf(tokIn)
            age == now - tokIn.ts
        IN /\ ~TokValidAtStart =>
                  tokOut.err # ErrNil /\ tokOut.token = <<>>
           /\ (TokValidAtStart /\ age < RefreshCooldown) =>
                  /\ tokOut.err = ErrNil /\ tokOut.token = old
                  /\ refreshSecurityToken(tokOut.token, tokIn.key, RefreshStart, now,
                                          tokIn.fresh)
                         = [token |-> old, err |-> ErrNil]
           /\ (TokValidAtStart /\ age >= RefreshCooldown) =>
                  /\ tokOut.err = ErrNil
                  /\ tokOut.token = generateSecurityTokenAt(tokIn.fresh, now)
                  /\ tokOut.token # old

\* C24 witness: a refresh of a valid token whose age had reached the cooldown
\* returned a new token.
C24_Witness ==
    /\ tokOut.op = "refresh"
    /\ TokValidAtStart
    /\ now - tokIn.ts >= RefreshCooldown
    /\ tokOut.err = ErrNil
    /\ tokOut.token # TokenOf(tokIn)


----------------------------------------------------------------------------
(* C25 *)

\* C25: on the entity a caller holds, each of Get, Set, Delete, Renew and
\* Touch called now leaves LastActive = now, and LastActive <= now holds
\* before and after.
C25_EntityOpsTouch ==
    ent # NilSession =>
        /\ ent.LastActive <= now
        /\ Touch(ent, now).LastActive = now
        /\ \A k \in DataKeys :
               /\ SessionDataGet(ent, k, now).s.LastActive = now
               /\ SessionDataDelete(ent, k, now).LastActive = now
               /\ \A v \in DataVals : SessionDataSet(ent, k, v, now).LastActive = now
        /\ \A d \in Durations : Renew(ent, d, now).LastActive = now


----------------------------------------------------------------------------
(* C26, C27, C28 *)

\* C26: once Destroy(id) has returned, no session record is stored under id
\* and a Get or Refresh of id called from then on fails, whatever Get and
\* Refresh calls of id were in flight when the record was deleted.
C26_NoResurrection ==
    (last.op = "Destroy" /\ last.err = ErrNil) =>
        /\ ~HasRecord(cache, last.id)
        /\ GetCall(cache, last.id, now).err # ErrNil
        /\ \A d \in Durations : RefreshCall(cache, last.id, d, now).err # ErrNil

\* C27: once RegenerateSessionID(old) has returned a new ID, the cache holds
\* no session record under old, so old and the new ID never both resolve,
\* whatever Get and Refresh calls of old overlap the regeneration.
C27_OldIDDead ==
    (last.op = "RegenerateSessionID" /\ last.err = ErrNil) =>
        /\ ~HasRecord(cache, last.id)
        /\ ~(/\ GetCall(cache, last.id, now).err = ErrNil
             /\ GetCall(cache, uuidNew(minted), now).err = ErrNil)

\* C28: a Get that returns a session returns one whose Expiration is not
\* earlier than the time of the return (its LastActive, set by the Touch
\* before the write), and no record is persisted with an Expiration earlier
\* than the time it was written.
C28_GetNeverServesExpired ==
    /\ \A c \in RaceCalls :
           (calls[c].pc = "done" /\ calls[c].op = "Get" /\ calls[c].err = ErrNil) =>
               calls[c].data.Expiration >= calls[c].data.LastActive
    /\ \A id \in MintedIDs :
           HasRecord(cache, id) =>
               RecordAt(cache, id).Expiration >= RecordAt(cache, id).LastActive


----------------------------------------------------------------------------
(* C29 *)

\* C29: with MaxSessionDuration = M > 0, after a Refresh at time now the
\* session is not retrievable by a Get at any time later than now + M, with no
\* Get in between or with one (which re-persists the record with the time
\* until its Expiration as TTL).
C29_MaxDurationCompliance ==
    cfg.MaxSessionDuration > 0 =>
        \A id \in MintedIDs, d \in 1..(MaxDuration + 1) :
            LET r == RefreshCall(cache, id, d, now)
                M == cfg.MaxSessionDuration
            IN r.err = ErrNil =>
                   \A t2 \in (now + M + 1)..(now + M + 2) :
                       /\ GetCall(CacheExpire(r.cache, t2), id, t2).err # ErrNil
                       /\ \A t1 \in now..(now + M) :
                              LET g1 == GetCall(CacheExpire(r.cache, t1), id, t1) IN
                              GetCall(CacheExpire(g1.cache, t2), id, t2).err # ErrNil


----------------------------------------------------------------------------
(* C30 *)

\* the lock entry in the cache is the one call c added
OwnsLock(c) ==
    /\ LockKey(calls[c].old) \in DOMAIN cache
    /\ cache[LockKey(calls[c].old)].exp = calls[c].lockedAt + LockTTL

\* C30: whenever the deferred release of a call deletes a lock entry, the
\* entry is the one that call added, never the entry of another call.
C30_ReleaseOwnLock ==
    [][\A c \in CallSet :
          (Release(c) /\ LockKey(calls[c].old) \in DOMAIN cache) => OwnsLock(c)]_vars


----------------------------------------------------------------------------
(* C31 *)

\* a session record that has not reached its Expiration is stored under id
LiveRecord(id) == HasRecord(cache, id) /\ RecordAt(cache, id).Expiration > now

\* C31: the step of a Get that found no record writes the zero-length
\* tombstone under its ID with the tombstone TTL and nothing else, ends the
\* call with not found, leaves no session record under the ID, and does not
\* overwrite a live session record that is stored under the ID when it runs.
C31_TombstoneOnly ==
    [][\A c \in RaceCalls :
          RaceTombstone(c) =>
              /\ calls'[c].err = ErrNotFound
              /\ cache' = CachePut(cache, calls[c].id,
                                   [bytes |-> <<>>, exp |-> now + TombstoneTTL])
              /\ ~HasRecord(cache', calls[c].id)
              /\ ~LiveRecord(calls[c].id)]_vars


----------------------------------------------------------------------------
(* C32 *)

\* C32: when RegenerateSessionID(id) returns an error - the old session is
\* not found or inactive, or the cache refuses the Set of the new record - it
\* returns no ID, the cache holds no session record under the ID the call
\* minted, and an old record that its Get loaded is still stored under id, as
\* that Get re-persisted it.
C32_ErrorLeavesRecords ==
    \A id \in CallIDs \cup {InvalidID}, e \in SetAnswers :
          LET new == uuidNew(minted + 1)
              r == RegenerateCallSet(cache, id, new, now, e)
              g == GetCall(cache, id, now)
          IN r.err # ErrNil =>
                /\ r.new = <<>>
                /\ ~HasRecord(r.cache, new)
                /\ g.err = ErrNil =>
                       (HasRecord(r.cache, id) /\ RecordAt(r.cache, id) = g.res)

\* C32 witness: a RegenerateSessionID whose Set of the new record failed has
\* returned the error, and the old record is stored.
C32_Witness ==
    /\ last.op = "RegenerateSessionID"
    /\ last.err = ErrCache
    /\ HasRecord(cache, last.id)
    /\ ~HasRecord(cache, uuidNew(minted))


----------------------------------------------------------------------------
(* C33 *)

\* C33: a token as generateSecurityToken makes it, validated with the
\* manager's key no later than 30 seconds after it was minted, is accepted by
\* validateSecurityToken, and refreshSecurityToken returns a token for it and
\* no error.
C33_MintedTokenValidates ==
    (tokIn.shape = "minted" /\ tokOut.op # "none") =>
        /\ (tokOut.op = "validate" /\ tokIn.ts <= now /\ now <= tokIn.ts + MaxDrift) =>
               tokOut.valid
        /\ (/\ tokOut.op = "refresh"
            /\ tokIn.ts <= RefreshStart
            /\ RefreshStart <= tokIn.ts + MaxDrift) =>
               tokOut.err = ErrNil

=============================================================================
